---- MODULE Spec2Model ----
(***************************************************************************)
(* Registro de IT del PEI: the Streamlit form of src/app.py over the       *)
(* table it_pei_historial, and the gateway of src/db_it_pei.py.            *)
(*                                                                         *)
(* Text values are sequences of one-character strings, so that strip,      *)
(* lower, the whitespace collapse and the float parse are computed and not *)
(* assumed.  Dates are the integers 1..MaxFecha; NoFecha stands for        *)
(* None/NULL/NaT.  Nulo stands for a None/NULL text value.                 *)
(*                                                                         *)
(* src/app.py calls insert_it_pei, update_it_pei and names IntegrityError  *)
(* without importing them.  The model binds insert_it_pei to the function  *)
(* of src/db_it_pei.py and IntegrityError to the store's uniqueness        *)
(* failure; update_it_pei is in no source file and is modelled from the    *)
(* specification (section 4.3).                                            *)
(***************************************************************************)
EXTENDS Integers, Sequences, FiniteSets, TLC

(***************************************************************************)
(* Bounds of the model.                                                    *)
(***************************************************************************)
MaxFilas == 2
MaxFecha == 2

(***************************************************************************)
(* Python's None for dates and identifiers, NaN for numbers, None for text *)
(***************************************************************************)
NoFecha == 0
Ninguno == 0
NaN == -1
Nulo == <<"None">>

(***************************************************************************)
(* A cell that int() refuses (a text that is no integer literal), and a    *)
(* cell that pd.to_datetime refuses (a text that is no date).              *)
(***************************************************************************)
NoEntero == -2
FechaInvalida == -1

Fechas == 1..MaxFecha

(***************************************************************************)
(* Characters and the text helpers of Python that the code uses.           *)
(***************************************************************************)
Mayusculas == <<"A","B","C","D","E","F","G","H","I","J","K","L","M","N","O","P","Q","R","S","T","U","V","W","X","Y","Z","Á","É","Í","Ó","Ú">>
Minusculas == <<"a","b","c","d","e","f","g","h","i","j","k","l","m","n","o","p","q","r","s","t","u","v","w","x","y","z","á","é","í","ó","ú">>
Digitos == <<"0","1","2","3","4","5","6","7","8","9">>
Blancos == {" ", "\t", "\n"}

\* str.lower() on one character
LowerChar(c) ==
  IF \E i \in 1..Len(Mayusculas) : Mayusculas[i] = c
  THEN Minusculas[CHOOSE i \in 1..Len(Mayusculas) : Mayusculas[i] = c]
  ELSE c

\* str.lower()
Lower(s) == [i \in 1..Len(s) |-> LowerChar(s[i])]

RECURSIVE LStrip(_)
LStrip(s) == IF s # <<>> /\ Head(s) \in Blancos THEN LStrip(Tail(s)) ELSE s

RECURSIVE RStrip(_)
RStrip(s) ==
  IF s # <<>> /\ s[Len(s)] \in Blancos THEN RStrip(SubSeq(s, 1, Len(s) - 1)) ELSE s

\* str.strip()
Strip(s) == RStrip(LStrip(s))

\* re.sub(r"\s+", " ", s): every maximal run of whitespace becomes one space
RECURSIVE CollapseWs(_)
CollapseWs(s) ==
  IF s = <<>> THEN <<>>
  ELSE IF Head(s) \in Blancos
       THEN <<" ">> \o CollapseWs(LStrip(s))
       ELSE <<Head(s)>> \o CollapseWs(Tail(s))

\* s.replace("_", " ")
ReplaceUnderscore(s) == [i \in 1..Len(s) |-> IF s[i] = "_" THEN " " ELSE s[i]]

IsDigit(c) == \E i \in 1..10 : Digitos[i] = c
DigitVal(c) == (CHOOSE i \in 1..10 : Digitos[i] = c) - 1
AllDigits(s) == \A i \in 1..Len(s) : IsDigit(s[i])

RECURSIVE DigitsToNat(_)
DigitsToNat(s) ==
  IF s = <<>> THEN 0 ELSE 10 * DigitsToNat(SubSeq(s, 1, Len(s) - 1)) + DigitVal(s[Len(s)])

RECURSIVE NatToStr(_)
NatToStr(n) ==
  IF n < 10 THEN <<Digitos[n + 1]>> ELSE NatToStr(n \div 10) \o <<Digitos[(n % 10) + 1]>>

\* str(n) of a Python int
IntToStr(n) == IF n < 0 THEN <<"-">> \o NatToStr(0 - n) ELSE NatToStr(n)

\* the position of the first "." of s, 0 when there is none
DotPos(s) == IF \E i \in 1..Len(s) : s[i] = "."
             THEN CHOOSE i \in 1..Len(s) : s[i] = "." /\ \A j \in 1..(i - 1) : s[j] # "."
             ELSE 0

\* the unsigned body of a decimal literal: digits, digits "." digits?, "." digits
IsDecimalBody(b) ==
  LET d == DotPos(b) IN
    IF d = 0 THEN b # <<>> /\ AllDigits(b)
    ELSE /\ AllDigits(SubSeq(b, 1, d - 1))
         /\ AllDigits(SubSeq(b, d + 1, Len(b)))
         /\ Len(b) > 1

HasSign(t) == t # <<>> /\ Head(t) \in {"+", "-"}
Unsigned(t) == IF HasSign(t) THEN Tail(t) ELSE t

\* float(x) succeeds on the text x (decimal literals; no exponent, inf or nan
\* occurs in the texts of the model)
FloatParses(x) == IsDecimalBody(Unsigned(Strip(x)))

\* int(float(x)) for a text x that float() parses: truncation toward zero
IntOfFloat(x) ==
  LET t == Strip(x)
      b == Unsigned(t)
      d == DotPos(b)
      ent == IF d = 0 THEN b ELSE SubSeq(b, 1, d - 1)
      n == DigitsToNat(ent)
  IN IF HasSign(t) /\ Head(t) = "-" THEN 0 - n ELSE n

\* normalizar_codigo without the numeric reading: the text stripped
normalizar_codigo_sin_float(x) == IF x = Nulo THEN <<>> ELSE Strip(x)

\* app.py 388-394 (the same function at 20-26)
normalizar_codigo(x) ==
  IF x = Nulo THEN <<>>
  ELSE IF FloatParses(x) THEN IntToStr(IntOfFloat(x))
  ELSE Strip(x)

(***************************************************************************)
(* The texts of the program (app.py 51-67, 119-150, 531-627).              *)
(***************************************************************************)
Formulado == <<"F","o","r","m","u","l","a","d","o">>
Ampliado == <<"A","m","p","l","i","a","d","o">>
Actualizado == <<"A","c","t","u","a","l","i","z","a","d","o">>
IT_Emitido == <<"I","T"," ","E","m","i","t","i","d","o">>
Para_emision_de_IT == <<"P","a","r","a"," ","e","m","i","s","i","ó","n"," ","d","e"," ","I","T">>
Revision_DNCP == <<"R","e","v","i","s","i","ó","n"," ","D","N","C","P">>
Revision_DNSE == <<"R","e","v","i","s","i","ó","n"," ","D","N","S","E">>
Revision_DNPE == <<"R","e","v","i","s","i","ó","n"," ","D","N","P","E">>
Subsanacion_del_pliego == <<"S","u","b","s","a","n","a","c","i","ó","n"," ","d","e","l"," ","p","l","i","e","g","o">>
Si == <<"S","í">>
No == <<"N","o">>
En_proceso == <<"E","n"," ","p","r","o","c","e","s","o">>
Emitido == <<"E","m","i","t","i","d","o">>
PEDN_2050 == <<"P","E","D","N"," ","2","0","5","0">>
PDRC == <<"P","D","R","C">>
PESEM_NO_vigente == <<"P","E","S","E","M"," ","N","O"," ","v","i","g","e","n","t","e">>
PESEM_vigente == <<"P","E","S","E","M"," ","v","i","g","e","n","t","e">>
PDLC_Provincial == <<"P","D","L","C"," ","P","r","o","v","i","n","c","i","a","l">>
PDLC_Distrital == <<"P","D","L","C"," ","D","i","s","t","r","i","t","a","l">>

Vacio == <<>>

\* app.py 120-124
estado_map ==
  (Lower(Emitido) :> Emitido) @@ (Lower(En_proceso) :> En_proceso)
    @@ (<<"p","r","o","c","e","s","o">> :> En_proceso)

\* app.py 126-130
vigencia_map ==
  (Lower(Si) :> Si) @@ (<<"s","i">> :> Si) @@ (Lower(No) :> No)

\* app.py 132-136
tipo_pei_map ==
  (Lower(Formulado) :> Formulado) @@ (Lower(Ampliado) :> Ampliado)
    @@ (Lower(Actualizado) :> Actualizado)

\* "revisión ..." written without the accent, as the second key of each pair
SinTilde(s) ==
  [i \in 1..Len(s) |-> CASE s[i] = "á" -> "a" [] s[i] = "é" -> "e" [] s[i] = "í" -> "i"
                         [] s[i] = "ó" -> "o" [] s[i] = "ú" -> "u" [] OTHER -> s[i]]

\* app.py 138-150
etapa_map ==
  (Lower(IT_Emitido) :> IT_Emitido)
    @@ (Lower(Para_emision_de_IT) :> Para_emision_de_IT)
    @@ (SinTilde(Lower(Para_emision_de_IT)) :> Para_emision_de_IT)
    @@ (Lower(Revision_DNCP) :> Revision_DNCP)
    @@ (SinTilde(Lower(Revision_DNCP)) :> Revision_DNCP)
    @@ (Lower(Revision_DNSE) :> Revision_DNSE)
    @@ (SinTilde(Lower(Revision_DNSE)) :> Revision_DNSE)
    @@ (Lower(Revision_DNPE) :> Revision_DNPE)
    @@ (SinTilde(Lower(Revision_DNPE)) :> Revision_DNPE)
    @@ (Lower(Subsanacion_del_pliego) :> Subsanacion_del_pliego)
    @@ (SinTilde(Lower(Subsanacion_del_pliego)) :> Subsanacion_del_pliego)

\* app.py 51-67
FORM_DEFAULTS ==
  [ tipo_pei |-> Formulado,
    etapa_revision |-> IT_Emitido,
    fecha_recepcion |-> NoFecha,
    articulacion |-> Vacio,
    fecha_derivacion |-> NoFecha,
    periodo |-> Vacio,
    cantidad_revisiones |-> 0,
    comentario |-> Vacio,
    vigencia |-> Si,
    estado |-> En_proceso,
    expediente |-> Vacio,
    fecha_it |-> NoFecha,
    fecha_oficio |-> NoFecha,
    numero_it |-> Vacio,
    numero_oficio |-> Vacio ]

\* app.py 83-84
reset_form_state == FORM_DEFAULTS

\* app.py 71-81: the form is read only after this call, so a missing form and
\* the defaults are the same state; an existing form keeps its values
init_form_state(form) ==
  [k \in DOMAIN FORM_DEFAULTS |-> IF k \in DOMAIN form THEN form[k] ELSE FORM_DEFAULTS[k]]

\* options.index(value), the fallback index when the value is not an option
index_of(options, value, fallback) ==
  IF \E i \in 1..Len(options) : options[i] = value
  THEN (CHOOSE i \in 1..Len(options) :
          options[i] = value /\ \A j \in 1..(i - 1) : options[j] # value) - 1
  ELSE fallback

\* dict.get / Series.get
Get(row, k, d) == IF k \in DOMAIN row THEN row[k] ELSE d

\* app.py 95-96
_safe_str(x) == IF x = Nulo THEN Vacio ELSE Strip(x)

\* _safe_int without the except: the cell as it is
_safe_int_sin_except(x) == x

\* app.py 98-102 (int(NaN), int(None) and int of a text that is no integer
\* raise, which yields 0)
_safe_int(x) == IF x \in {NaN, NoEntero} THEN 0 ELSE x

\* app.py 104-110 (NaT/None yield None; so does a cell pd.to_datetime refuses)
_safe_date(x) == IF x \in {NoFecha, FechaInvalida} THEN NoFecha ELSE x

\* norm_choice that leaves the underscores in the text
norm_choice_sin_guion_bajo(val, mapping, default) ==
  LET s0 == Lower(_safe_str(val))
      s1 == CollapseWs(s0)
      s2 == Strip(s1)
  IN IF s2 \in DOMAIN mapping THEN mapping[s2] ELSE default

\* app.py 113-117
norm_choice(val, mapping, default) ==
  LET s0 == Lower(_safe_str(val))
      s1 == CollapseWs(s0)
      s2 == Strip(ReplaceUnderscore(s1))
  IN IF s2 \in DOMAIN mapping THEN mapping[s2] ELSE default

\* app.py 92-206: the form built from a row
set_form_state_from_row(row) ==
  LET tipo_pei_val == Get(row, "tipo_pei", Get(row, "Tipo de PEI", FORM_DEFAULTS.tipo_pei))
      etapa_val == Get(row, "etapas_revision",
                     Get(row, "etapa_revision",
                       Get(row, "Etapas de revisión", FORM_DEFAULTS.etapa_revision)))
      periodo_val == Get(row, "periodo_pei", Get(row, "periodo", Get(row, "Periodo PEI", Vacio)))
      comentario_val == Get(row, "comentario_adicional_emisor_it",
                          Get(row, "comentario",
                            Get(row, "Comentario adicional/ Emisor de I.T", Vacio)))
  IN [ tipo_pei |-> norm_choice(tipo_pei_val, tipo_pei_map, FORM_DEFAULTS.tipo_pei),
       etapa_revision |-> norm_choice(etapa_val, etapa_map, FORM_DEFAULTS.etapa_revision),
       fecha_recepcion |->
         _safe_date(Get(row, "fecha_recepcion", Get(row, "Fecha de recepción", NoFecha))),
       articulacion |-> _safe_str(Get(row, "articulacion", Get(row, "Articulación", Vacio))),
       fecha_derivacion |->
         _safe_date(Get(row, "fecha_derivacion", Get(row, "Fecha de derivación", NoFecha))),
       periodo |-> _safe_str(periodo_val),
       cantidad_revisiones |->
         _safe_int(Get(row, "cantidad_revisiones", Get(row, "Cantidad de revisiones", 0))),
       comentario |-> _safe_str(comentario_val),
       vigencia |->
         norm_choice(Get(row, "vigencia", Get(row, "Vigencia", FORM_DEFAULTS.vigencia)),
                     vigencia_map, FORM_DEFAULTS.vigencia),
       estado |->
         norm_choice(Get(row, "estado", Get(row, "Estado", FORM_DEFAULTS.estado)),
                     estado_map, FORM_DEFAULTS.estado),
       expediente |-> _safe_str(Get(row, "expediente", Get(row, "Expediente", Vacio))),
       fecha_it |-> _safe_date(Get(row, "fecha_it", Get(row, "Fecha de I.T", NoFecha))),
       numero_it |-> _safe_str(Get(row, "numero_it", Get(row, "Número de I.T", Vacio))),
       fecha_oficio |->
         _safe_date(Get(row, "fecha_oficio",
                      Get(row, "Fecha Oficio", Get(row, "Fecha del Oficio", NoFecha)))),
       numero_oficio |->
         _safe_str(Get(row, "numero_oficio",
                     Get(row, "Número Oficio", Get(row, "Número del Oficio", Vacio)))) ]

(***************************************************************************)
(* Reference data: the executing units of data/unidades_ejecutoras.xlsx,   *)
(* as app.py 225-231 loads them (codigo and NG are stripped texts).  One   *)
(* unit's code is already in normalized form, the other's is not.          *)
(***************************************************************************)
Codigo23 == <<"2","3">>
Codigo07 == <<"0","7">>

df_ue ==
  { [codigo |-> Codigo23, nombre |-> <<"G","R">>, NG |-> "Gobierno regional"],
    [codigo |-> Codigo07, nombre |-> <<"M","N">>, NG |-> "Gobierno nacional"] }

Codigos == {u.codigo : u \in df_ue}

\* app.py 565
NivelDe(codigo) == (CHOOSE u \in df_ue : u.codigo = codigo).NG

\* app.py 567-574
opciones_articulacion(nivel) ==
  IF nivel = "Gobierno regional" THEN <<PEDN_2050, PDRC>>
  ELSE IF nivel = "Gobierno nacional" THEN <<PEDN_2050, PESEM_NO_vigente, PESEM_vigente>>
  ELSE IF nivel \in {"Municipalidad distrital", "Municipalidad provincial"}
       THEN <<PEDN_2050, PDRC, PDLC_Provincial, PDLC_Distrital>>
  ELSE <<>>

tipo_pei_opts == <<Formulado, Ampliado, Actualizado>>
etapas_opts ==
  <<IT_Emitido, Para_emision_de_IT, Revision_DNCP, Revision_DNSE, Revision_DNPE,
    Subsanacion_del_pliego>>
vigencia_opts == <<Si, No>>
estado_opts == <<En_proceso, Emitido>>

\* app.py 303-308: the responsable chosen in the first selectbox
resp_sel == <<"R","1">>

\* app.py 528, 558, 704: the clock of the run
Hoy == MaxFecha
AnioActual == 2026

(***************************************************************************)
(* The gateway, src/db_it_pei.py.                                          *)
(***************************************************************************)
\* db_it_pei.py 12-16
_clean_str(x) == IF x = Nulo THEN Nulo ELSE IF Strip(x) = Vacio THEN Nulo ELSE Strip(x)

\* db_it_pei.py 19-25 (numeric arguments)
_to_int(x) == IF x = NaN THEN NaN ELSE x

\* insert_missing with "fecha_recepcion" dropped from the required list
insert_missing_solo_id_ue(record) ==
  IF Get(record, "id_ue", Nulo) \in {Nulo, Vacio} THEN {"id_ue"} ELSE {}

\* db_it_pei.py 43-44: the required keys whose value is missing or falsy
insert_missing(record) ==
  (IF Get(record, "id_ue", Nulo) \in {Nulo, Vacio} THEN {"id_ue"} ELSE {})
    \cup (IF Get(record, "fecha_recepcion", NoFecha) = NoFecha THEN {"fecha_recepcion"} ELSE {})

\* db_it_pei.py 48-51: the parameters of the INSERT statement
insert_params(record) ==
  [k \in DOMAIN record |->
     CASE k = "id_ue" -> _clean_str(record[k])
       [] k = "anio" -> _to_int(record[k])
       [] k = "cantidad_revisiones" -> _to_int(record[k])
       [] OTHER -> record[k]]

(***************************************************************************)
(* The relational store: table it_pei_historial.  Its schema is in no      *)
(* source file; section 6 of the specification gives the columns, the      *)
(* store-assigned id and created_at, and section 5 the uniqueness          *)
(* constraint on the natural key.  Rows are kept in insertion order; id    *)
(* and created_at are the serial number of the insertion.                  *)
(***************************************************************************)
Columnas ==
  { "id", "id_ue", "anio", "ng1", "ng2", "fecha_recepcion", "periodo_pei", "vigencia",
    "tipo_pei", "estado", "responsable_institucional", "cantidad_revisiones",
    "fecha_derivacion", "etapas_revision", "comentario_adicional_emisor_it",
    "articulacion", "expediente", "fecha_it", "numero_it", "fecha_oficio",
    "numero_oficio", "created_at", "created_by" }

ColumnasNumericas == {"id", "anio", "cantidad_revisiones", "created_at"}
ColumnasFecha == {"fecha_recepcion", "fecha_derivacion", "fecha_it", "fecha_oficio"}

\* SQL NULL of a column
NullDe(k) == IF k \in ColumnasNumericas THEN NaN
             ELSE IF k \in ColumnasFecha THEN NoFecha ELSE Nulo

\* the natural key of the uniqueness constraint
ClaveNatural(r) == <<r.id_ue, r.fecha_recepcion, r.tipo_pei>>

\* the constraint rejects the row (NULL keys never collide)
ViolaUnicidad(t, params) ==
  /\ params.id_ue # Nulo
  /\ \E i \in 1..Len(t) : ClaveNatural(t[i]) = ClaveNatural(params)

\* the row an INSERT with these parameters creates
FilaNueva(t, params) ==
  [k \in Columnas |->
     CASE k = "id" -> Len(t) + 1
       [] k = "created_at" -> Len(t) + 1
       [] k \in DOMAIN params -> params[k]
       [] OTHER -> NullDe(k)]

\* db_it_pei.py 41-63: the outcome of insert_it_pei on table t
insert_it_pei(t, record) ==
  IF insert_missing(record) # {}
  THEN [res |-> "ValueError", tabla |-> t]
  ELSE IF ViolaUnicidad(t, insert_params(record))
       THEN [res |-> "IntegrityError", tabla |-> t]
       ELSE [res |-> "ok", tabla |-> Append(t, FilaNueva(t, insert_params(record)))]

\* update(id, changeset) of section 4.3: only the fields present in the
\* changeset are written to the row with that identifier
update_it_pei(t, id, cambios) ==
  IF \E i \in 1..Len(t) : t[i].id = id
  THEN [res |-> "ok",
        tabla |-> [i \in 1..Len(t) |->
                     IF t[i].id = id
                     THEN [k \in Columnas |-> IF k \in DOMAIN cambios THEN cambios[k] ELSE t[i][k]]
                     ELSE t[i]]]
  ELSE [res |-> "NotFoundError", tabla |-> t]

\* ORDER BY fecha_recepcion DESC NULLS LAST, created_at DESC: r goes before q
VaAntes(r, q) ==
  \/ r.fecha_recepcion # NoFecha /\ q.fecha_recepcion = NoFecha
  \/ r.fecha_recepcion # NoFecha /\ q.fecha_recepcion # NoFecha
       /\ r.fecha_recepcion > q.fecha_recepcion
  \/ r.fecha_recepcion = q.fecha_recepcion /\ r.created_at > q.created_at

\* the rows WHERE id_ue = :id_ue
FilasDe(t, id_ue) == {t[i] : i \in {j \in 1..Len(t) : t[j].id_ue = id_ue}}

\* db_it_pei.py 28-38: the first row of the ordered result, Nulo when none
fetch_last_by_ue(t, id_ue) ==
  IF FilasDe(t, id_ue) = {} THEN Nulo
  ELSE CHOOSE r \in FilasDe(t, id_ue) : \A q \in FilasDe(t, id_ue) \ {r} : VaAntes(r, q)

(***************************************************************************)
(* The sessions.  st.session_state is a dictionary: a key that was never   *)
(* set is not in its domain.                                               *)
(***************************************************************************)
Sesiones == {1, 2}

VARIABLES
  tabla,          \* it_pei_historial: the rows in insertion order
  session_state,  \* per session: st.session_state
  seleccion,      \* per session: the unit chosen in the selectbox, Nulo when none
  pendiente,      \* per session: the store call the running submit has built
  paso,           \* per session: what the last run of the script did and showed
  invocacion      \* a function of the program called on its own: name, argument, results

vars == <<tabla, session_state, seleccion, pendiente, paso, invocacion>>

FORM_STATE_KEY == "pei_form_data"

\* session_state[k] = v
Put(ss, k, v) == [x \in DOMAIN ss \cup {k} |-> IF x = k THEN v ELSE ss[x]]

SinLlamada == [op |-> "ninguna"]

SinInvocacion == [fn |-> "ninguna"]

\* app.py 384, 502-506: a run of the script in modo "nuevo" calls init_form_state
Render(ss, sel) ==
  IF "modo" \in DOMAIN ss /\ sel # Nulo /\ ss["modo"] = "nuevo"
  THEN Put(ss, FORM_STATE_KEY, init_form_state(Get(ss, FORM_STATE_KEY, <<>>)))
  ELSE ss

\* app.py 509-510
edit_mode(ss) == Get(ss, "edit_mode", FALSE)
edit_id(ss) == Get(ss, "edit_id", Ninguno)

\* app.py 512, 668, 680: "edit_mode and edit_id"
EnActualizacion(ss) == edit_mode(ss) /\ edit_id(ss) # Ninguno

\* the history query without its WHERE clause: the rows of every unit
df_historial_sin_filtro(t, codigo) ==
  { [k \in Columnas \ {"id_ue", "created_by"} |-> r[k]] : r \in {t[i] : i \in 1..Len(t)} }

\* app.py 402-436: the history query filters by the normalized code and does
\* not select id_ue nor created_by
df_historial(t, codigo) ==
  { [k \in Columnas \ {"id_ue", "created_by"} |-> r[k]] :
      r \in FilasDe(t, normalizar_codigo(codigo)) }

\* ultimo with the sort ascending: the oldest row
ultimo_ascendente(df) == CHOOSE r \in df : \A q \in df \ {r} : VaAntes(q, r)

\* app.py 464-467: sort_values by fecha_recepcion and created_at, both
\* descending, NaT last; the first row
ultimo(df) == CHOOSE r \in df : \A q \in df \ {r} : VaAntes(r, q)

\* app.py 372-373
boton_historial(ss) == Put(ss, "modo", "historial")

\* app.py 376-379
boton_nuevo(ss) == Put(Put(ss, "modo", "nuevo"), FORM_STATE_KEY, reset_form_state)

\* app.py 477-489
cargar_ultimo(ss, u) ==
  Put(Put(Put(Put(ss, FORM_STATE_KEY, set_form_state_from_row(u)),
              "edit_mode", TRUE), "edit_id", u.id), "modo", "nuevo")

\* post_accion that returns to the history view and leaves the edit flags
post_accion_sin_limpiar(ss) == Put(ss, "modo", "historial")

\* post_accion that clears the editing identifier and leaves edit mode on
post_accion_deja_edit_mode(ss) == Put(Put(ss, "modo", "historial"), "edit_id", Ninguno)

\* app.py 731-735
post_accion(ss) == Put(Put(Put(ss, "modo", "historial"), "edit_mode", FALSE), "edit_id", Ninguno)

\* a handler that leaves the form for the history view
except_handler_a_historial(ss) == Put(ss, "modo", "historial")

\* app.py 737-740: both handlers only show the error
except_handler(ss) == ss

\* app.py 672-674: st.stop() ends the run
validacion_stop(ss) == ss

(***************************************************************************)
(* The form widgets (app.py 521-653).  e is what the user has entered; a   *)
(* disabled widget holds the value the form state gives it.                *)
(***************************************************************************)
Opcion(options, value) == options[index_of(options, value, 0) + 1]

FechaWidget(valor) == IF valor # NoFecha THEN valor ELSE Hoy

Widgets(ss, codigo, e) ==
  LET form == ss[FORM_STATE_KEY]
      bloqueado == edit_mode(ss)
      arts == opciones_articulacion(NivelDe(codigo))
  IN [ e EXCEPT
       !.tipo_pei = IF bloqueado THEN Opcion(tipo_pei_opts, form.tipo_pei) ELSE @,
       !.fecha_recepcion = IF bloqueado THEN FechaWidget(form.fecha_recepcion) ELSE @,
       !.articulacion = IF arts = <<>> THEN Nulo
                        ELSE IF bloqueado THEN Opcion(arts, form.articulacion) ELSE @,
       !.periodo = IF bloqueado THEN form.periodo ELSE @,
       !.vigencia = IF bloqueado THEN Opcion(vigencia_opts, form.vigencia) ELSE @ ]

\* puede_emitir without the strip: a blank text counts as filled in
puede_emitir_sin_strip(w) ==
  /\ w.expediente # Vacio
  /\ w.fecha_it # NoFecha
  /\ w.numero_it # Vacio

\* app.py 656-659
puede_emitir(w) ==
  /\ Strip(w.expediente) # Vacio
  /\ w.fecha_it # NoFecha
  /\ Strip(w.numero_it) # Vacio

\* app.py 672: the submit is refused
ValidacionFalla(w) == w.estado = Emitido /\ ~puede_emitir(w)

\* app.py 599: re.match(r"^\d{4}-\d{4}$", periodo); "$" also matches just
\* before a final newline
patron_periodo(p) ==
  LET q == IF p # <<>> /\ p[Len(p)] = "\n" THEN SubSeq(p, 1, Len(p) - 1) ELSE p
  IN /\ Len(q) = 9
     /\ AllDigits(SubSeq(q, 1, 4))
     /\ q[5] = "-"
     /\ AllDigits(SubSeq(q, 6, 9))

\* app.py 600-601: the condition under which st.error shows "Formato
\* invalido"; the run goes on after the message
periodo_invalido(w) == w.periodo # Vacio /\ ~patron_periodo(w.periodo)

\* cambios with one blocked field left in it
cambios_con_vigencia(w) ==
  [ estado |-> w.estado,
    vigencia |-> w.vigencia,
    responsable_institucional |-> resp_sel,
    cantidad_revisiones |-> w.cantidad_revisiones,
    fecha_derivacion |-> w.fecha_derivacion,
    etapas_revision |-> w.etapa_revision,
    comentario_adicional_emisor_it |-> w.comentario,
    expediente |-> w.expediente,
    fecha_it |-> w.fecha_it,
    numero_it |-> w.numero_it,
    fecha_oficio |-> w.fecha_oficio,
    numero_oficio |-> w.numero_oficio ]

\* cambios that also writes the reception date the widget shows
cambios_con_fecha_recepcion(w) ==
  [ estado |-> w.estado,
    fecha_recepcion |-> w.fecha_recepcion,
    responsable_institucional |-> resp_sel,
    cantidad_revisiones |-> w.cantidad_revisiones,
    fecha_derivacion |-> w.fecha_derivacion,
    etapas_revision |-> w.etapa_revision,
    comentario_adicional_emisor_it |-> w.comentario,
    expediente |-> w.expediente,
    fecha_it |-> w.fecha_it,
    numero_it |-> w.numero_it,
    fecha_oficio |-> w.fecha_oficio,
    numero_oficio |-> w.numero_oficio ]

\* app.py 683-695: the update changeset
cambios(w) ==
  [ estado |-> w.estado,
    responsable_institucional |-> resp_sel,
    cantidad_revisiones |-> w.cantidad_revisiones,
    fecha_derivacion |-> w.fecha_derivacion,
    etapas_revision |-> w.etapa_revision,
    comentario_adicional_emisor_it |-> w.comentario,
    expediente |-> w.expediente,
    fecha_it |-> w.fecha_it,
    numero_it |-> w.numero_it,
    fecha_oficio |-> w.fecha_oficio,
    numero_oficio |-> w.numero_oficio ]

\* app.py 702-726: the record of an insert
nuevo_pg(codigo, w) ==
  [ id_ue |-> Strip(codigo),
    anio |-> AnioActual,
    fecha_recepcion |-> w.fecha_recepcion,
    periodo_pei |-> w.periodo,
    vigencia |-> w.vigencia,
    tipo_pei |-> w.tipo_pei,
    articulacion |-> w.articulacion,
    estado |-> w.estado,
    responsable_institucional |-> resp_sel,
    cantidad_revisiones |-> w.cantidad_revisiones,
    fecha_derivacion |-> w.fecha_derivacion,
    etapas_revision |-> w.etapa_revision,
    comentario_adicional_emisor_it |-> w.comentario,
    expediente |-> w.expediente,
    fecha_it |-> w.fecha_it,
    numero_it |-> w.numero_it,
    fecha_oficio |-> w.fecha_oficio,
    numero_oficio |-> w.numero_oficio,
    created_by |-> Nulo ]

\* app.py 680-728: the store call the submit makes
llamada(ss, codigo, w) ==
  IF EnActualizacion(ss)
  THEN [op |-> "update", id |-> edit_id(ss), datos |-> cambios(w)]
  ELSE [op |-> "insert", datos |-> nuevo_pg(codigo, w)]

(***************************************************************************)
(* What the user enters in the form.  The values that no branch of the     *)
(* code looks at are fixed; the others vary.                               *)
(***************************************************************************)
EntradaBase ==
  [ tipo_pei |-> Formulado,
    etapa_revision |-> IT_Emitido,
    fecha_recepcion |-> 1,
    articulacion |-> PEDN_2050,
    fecha_derivacion |-> Hoy,
    periodo |-> <<"2","0","2","5","-","2","0","2","7">>,
    cantidad_revisiones |-> 0,
    comentario |-> Vacio,
    vigencia |-> Si,
    estado |-> En_proceso,
    expediente |-> Vacio,
    fecha_it |-> Hoy,
    fecha_oficio |-> Hoy,
    numero_it |-> Vacio,
    numero_oficio |-> Vacio ]

\* the identification of the plan: reception date and plan type
EntradasPlan ==
  { [EntradaBase EXCEPT !.fecha_recepcion = f, !.tipo_pei = t] :
      f \in Fechas, t \in {Formulado, Ampliado} }

\* the technical report: issued, with or without its file reference and number
EntradasEmision ==
  { [EntradaBase EXCEPT !.estado = Emitido, !.vigencia = No, !.expediente = x, !.numero_it = n] :
      x \in {<<" ">>, <<"E"," ">>}, n \in {Vacio, <<"N">>} }

Entradas == EntradasPlan \cup EntradasEmision

\* the inputs of the sessions that race
EntradasCarrera ==
  { EntradaBase,
    [EntradaBase EXCEPT !.estado = Emitido, !.vigencia = No,
                        !.expediente = <<"E"," ">>, !.numero_it = <<"N">>] }

Periodo_2025_2027 == <<"2","0","2","5","-","2","0","2","7">>
Periodo_25_27 == <<"2","5","-","2","7">>

\* the period typed in the form: none, well formed, malformed
EntradasPeriodo ==
  { [EntradaBase EXCEPT !.periodo = p] : p \in {Vacio, Periodo_2025_2027, Periodo_25_27} }

Rango(seq) == {seq[i] : i \in 1..Len(seq)}

\* the user can only choose an articulation the select box offers
EntradaPosible(codigo, e) ==
  LET arts == opciones_articulacion(NivelDe(codigo))
  IN arts = <<>> \/ e.articulacion \in Rango(arts)

\* the number of inserts that sessions have built and not yet executed
InsertsPendientes == Cardinality({s \in Sesiones : pendiente[s].op = "insert"})

(***************************************************************************)
(* Initial state: no row, empty session dictionaries, no unit selected.    *)
(***************************************************************************)
Init ==
  /\ tabla = <<>>
  /\ session_state = [s \in Sesiones |-> <<>>]
  /\ seleccion = [s \in Sesiones |-> Nulo]
  /\ pendiente = [s \in Sesiones |-> SinLlamada]
  /\ paso = [s \in Sesiones |-> "inicio"]
  /\ invocacion = SinInvocacion

Libre(s) == pendiente[s] = SinLlamada

(***************************************************************************)
(* app.py 328-333: the user selects a unit (or clears the selection); the  *)
(* script runs again.                                                      *)
(***************************************************************************)
Seleccionar(s, c) ==
  /\ Libre(s)
  /\ c # seleccion[s]
  /\ seleccion' = [seleccion EXCEPT ![s] = c]
  /\ session_state' = [session_state EXCEPT ![s] = Render(@, c)]
  /\ paso' = [paso EXCEPT ![s] = "seleccion"]
  /\ UNCHANGED <<tabla, pendiente, invocacion>>

\* app.py 372-373: button "Historial PEI"
BotonHistorial(s) ==
  /\ Libre(s)
  /\ seleccion[s] # Nulo
  /\ session_state' = [session_state EXCEPT ![s] = Render(boton_historial(@), seleccion[s])]
  /\ paso' = [paso EXCEPT ![s] = "historial"]
  /\ UNCHANGED <<tabla, seleccion, pendiente, invocacion>>

\* app.py 376-379: button "Nuevo registro"
BotonNuevo(s) ==
  /\ Libre(s)
  /\ seleccion[s] # Nulo
  /\ session_state' = [session_state EXCEPT ![s] = Render(boton_nuevo(@), seleccion[s])]
  /\ paso' = [paso EXCEPT ![s] = "nuevo"]
  /\ UNCHANGED <<tabla, seleccion, pendiente, invocacion>>

\* app.py 444-489: button "Cargar ultimo registro", shown when the history of
\* the selected unit is not empty
CargarUltimo(s) ==
  /\ Libre(s)
  /\ seleccion[s] # Nulo
  /\ "modo" \in DOMAIN session_state[s]
  /\ session_state[s]["modo"] = "historial"
  /\ df_historial(tabla, seleccion[s]) # {}
  /\ session_state' =
       [session_state EXCEPT
          ![s] = Render(cargar_ultimo(@, ultimo(df_historial(tabla, seleccion[s]))),
                        seleccion[s])]
  /\ paso' = [paso EXCEPT ![s] = "cargado"]
  /\ UNCHANGED <<tabla, seleccion, pendiente, invocacion>>

(***************************************************************************)
(* app.py 669-728: the form is submitted with the entries e.  The run      *)
(* validates, builds the store call and reaches the store.  The check of   *)
(* the period (app.py 600-601) shows a message and changes nothing: the    *)
(* run goes on.  The table is bounded: no insert is built that would make  *)
(* it longer than MaxFilas.                                                *)
(***************************************************************************)
Enviar(s, e) ==
  /\ Libre(s)
  /\ seleccion[s] # Nulo
  /\ "modo" \in DOMAIN session_state[s]
  /\ session_state[s]["modo"] = "nuevo"
  /\ EntradaPosible(seleccion[s], e)
  /\ LET w == Widgets(session_state[s], seleccion[s], e)
     IN IF ValidacionFalla(w)
        THEN /\ session_state' = [session_state EXCEPT ![s] = validacion_stop(@)]
             /\ paso' = [paso EXCEPT ![s] = "validacion"]
             /\ UNCHANGED pendiente
        ELSE /\ EnActualizacion(session_state[s]) \/ Len(tabla) + InsertsPendientes < MaxFilas
             /\ pendiente' = [pendiente EXCEPT ![s] = llamada(session_state[s], seleccion[s], w)]
             /\ paso' = [paso EXCEPT ![s] = "enviando"]
             /\ UNCHANGED session_state
  /\ UNCHANGED <<tabla, seleccion, invocacion>>

\* the outcome of the store call of session s on the table as it is now
Resultado(s) ==
  IF pendiente[s].op = "update"
  THEN update_it_pei(tabla, pendiente[s].id, pendiente[s].datos)
  ELSE insert_it_pei(tabla, pendiente[s].datos)

\* Mensaje with the uniqueness failure swallowed: shown as a success
Mensaje_sin_duplicado(op, res) ==
  IF res \in {"ok", "IntegrityError"} THEN (IF op = "update" THEN "actualizado" ELSE "guardado")
  ELSE "error"

\* what the run shows after the store call
Mensaje(op, res) ==
  IF res = "ok" THEN (IF op = "update" THEN "actualizado" ELSE "guardado")
  ELSE IF res = "IntegrityError" THEN "duplicado"
  ELSE "error"

\* app.py 697-740: the store executes the call in one transaction; on success
\* the post-action runs, on failure one of the handlers
Ejecutar(s) ==
  /\ ~Libre(s)
  /\ LET r == Resultado(s)
     IN /\ tabla' = r.tabla
        /\ session_state' =
             [session_state EXCEPT
                ![s] = IF r.res = "ok" THEN Render(post_accion(@), seleccion[s])
                       ELSE except_handler(@)]
        /\ paso' = [paso EXCEPT ![s] = Mensaje(pendiente[s].op, r.res)]
  /\ pendiente' = [pendiente EXCEPT ![s] = SinLlamada]
  /\ UNCHANGED <<seleccion, invocacion>>

\* app.py 739-740: the store call fails for another reason (connection lost):
\* the transaction rolls back
FallaStore(s) ==
  /\ ~Libre(s)
  /\ session_state' = [session_state EXCEPT ![s] = except_handler(@)]
  /\ paso' = [paso EXCEPT ![s] = "error"]
  /\ pendiente' = [pendiente EXCEPT ![s] = SinLlamada]
  /\ UNCHANGED <<tabla, seleccion, invocacion>>

Next ==
  \E s \in {1} :
    \/ \E c \in Codigos \cup {Nulo} : Seleccionar(s, c)
    \/ BotonHistorial(s)
    \/ BotonNuevo(s)
    \/ CargarUltimo(s)
    \/ \E e \in Entradas : Enviar(s, e)
    \/ Ejecutar(s)
    \/ FallaStore(s)

\* one session at work
Spec == Init /\ [][Next]_vars

NextCarrera ==
  \E s \in Sesiones :
    \/ \E c \in Codigos \cup {Nulo} : Seleccionar(s, c)
    \/ BotonHistorial(s)
    \/ BotonNuevo(s)
    \/ CargarUltimo(s)
    \/ \E e \in EntradasCarrera : Enviar(s, e)
    \/ Ejecutar(s)
    \/ FallaStore(s)

\* two sessions on the shared store
SpecCarrera == Init /\ [][NextCarrera]_vars

NextPeriodo ==
  \E s \in {1} :
    \/ \E c \in Codigos \cup {Nulo} : Seleccionar(s, c)
    \/ BotonHistorial(s)
    \/ BotonNuevo(s)
    \/ CargarUltimo(s)
    \/ \E e \in EntradasPeriodo : Enviar(s, e)
    \/ Ejecutar(s)
    \/ FallaStore(s)

\* one session at work, the period of the plan varying
SpecPeriodo == Init /\ [][NextPeriodo]_vars

(***************************************************************************)
(* The gateway called directly (db_it_pei.py is a module of its own): any  *)
(* record, with the required keys present, empty, None or missing.         *)
(***************************************************************************)
RegistroBase == nuevo_pg(Codigo23, EntradaBase)

RegistrosGateway ==
  { [k \in ks |->
       CASE k = "id_ue" -> iu
         [] k = "fecha_recepcion" -> f
         [] k = "tipo_pei" -> t
         [] OTHER -> RegistroBase[k]] :
      ks \in { DOMAIN RegistroBase, DOMAIN RegistroBase \ {"id_ue"},
               DOMAIN RegistroBase \ {"fecha_recepcion"} },
      iu \in {Nulo, Vacio, <<" ">>, Codigo23, <<" ","0","7">>},
      f \in Fechas \cup {NoFecha},
      t \in {Formulado, Ampliado} }

\* db_it_pei.py 41-63 called with record; paso[1] keeps how the call ended
LlamarInsert(record) ==
  /\ Len(tabla) < MaxFilas
  /\ LET r == insert_it_pei(tabla, record)
     IN /\ tabla' = r.tabla
        /\ paso' = [paso EXCEPT ![1] = r.res]
  /\ UNCHANGED <<session_state, seleccion, pendiente, invocacion>>

NextGateway == \E record \in RegistrosGateway : LlamarInsert(record)

SpecGateway == Init /\ [][NextGateway]_vars

(***************************************************************************)
(* The functions of the program called on their own.  The argument is      *)
(* drawn in the initial state; a step applies the function and appends the *)
(* result to rets.                                                         *)
(***************************************************************************)
MaxLen == 3

\* the characters of the raw unit codes: digits, the decimal point, the sign,
\* a blank and a letter
AlfabetoCodigo == {"0", "2", "3", ".", "-", " ", "a"}

Textos(alfabeto, n) == UNION {[1..k -> alfabeto] : k \in 0..n}

Codigo_23_0 == <<"2","3",".","0">>
Codigo_b23b == <<" ","2","3"," ">>

\* the values normalizar_codigo is given: a cell of the codigo column, None
\* when it is missing
CodigosCrudos ==
  Textos(AlfabetoCodigo, MaxLen) \cup {Nulo, Codigo_23_0, Codigo_b23b, Codigo23, Codigo07}

\* str.upper() on one character
UpperChar(c) ==
  IF \E i \in 1..Len(Minusculas) : Minusculas[i] = c
  THEN Mayusculas[CHOOSE i \in 1..Len(Minusculas) : Minusculas[i] = c]
  ELSE c

\* str.upper()
Upper(s) == [i \in 1..Len(s) |-> UpperChar(s[i])]

\* the text with "_" written for every blank
ConGuionBajo(s) == [i \in 1..Len(s) |-> IF s[i] = " " THEN "_" ELSE s[i]]

\* the text with every blank written twice, the second time as a tab
RECURSIVE BlancosDobles(_)
BlancosDobles(s) ==
  IF s = <<>> THEN <<>>
  ELSE IF Head(s) = " " THEN <<" ", "\t">> \o BlancosDobles(Tail(s))
       ELSE <<Head(s)>> \o BlancosDobles(Tail(s))

\* the ways a stored cell spells the choice c: as the form does, lower and
\* upper case, without the accent, with underscores, with blanks around it
\* and with runs of blanks inside it
Grafias(c) ==
  { c, Lower(c), Upper(c), SinTilde(Lower(c)), Upper(SinTilde(Lower(c))),
    ConGuionBajo(c), Upper(ConGuionBajo(c)), <<" ", "\t">> \o c \o <<"\n">>,
    BlancosDobles(c), <<"_">> \o c \o <<"_">> }

\* spellings that are no choice of any mapping
NoOpciones ==
  { Nulo, Vacio, <<"x">>, <<"n","ó">>, <<"s","_","i">>, <<"e","n","_"," ","p","r","o","c","e","s","o">> }

\* app.py 120-150: the mappings by name
MapaDe(nombre) ==
  CASE nombre = "estado" -> estado_map
    [] nombre = "vigencia" -> vigencia_map
    [] nombre = "tipo_pei" -> tipo_pei_map
    [] nombre = "etapa_revision" -> etapa_map

\* a default as the callers give it, and one that no normalization leaves alone
Defectos == { No, <<" ","X","_"," ">> }

\* the arguments of norm_choice: for each mapping, its keys, the spellings of
\* its canonical values, and the spellings that are no choice
ArgumentosNormChoice ==
  { [val |-> v, mapping |-> n, default |-> d] :
      v \in UNION { DOMAIN MapaDe(n0) \cup NoOpciones
                      \cup UNION { Grafias(MapaDe(n0)[k]) : k \in DOMAIN MapaDe(n0) } :
                    n0 \in {"estado", "vigencia", "tipo_pei", "etapa_revision"} },
      n \in {"estado", "vigencia", "tipo_pei", "etapa_revision"},
      d \in Defectos }

\* app.py 156-204: the column names under which a row may hold each field of
\* the form, the current name first, then the former ones
NombresDe ==
  [ tipo_pei |-> <<"tipo_pei", "Tipo de PEI">>,
    etapa_revision |-> <<"etapas_revision", "etapa_revision", "Etapas de revisión">>,
    fecha_recepcion |-> <<"fecha_recepcion", "Fecha de recepción">>,
    articulacion |-> <<"articulacion", "Articulación">>,
    fecha_derivacion |-> <<"fecha_derivacion", "Fecha de derivación">>,
    periodo |-> <<"periodo_pei", "periodo", "Periodo PEI">>,
    cantidad_revisiones |-> <<"cantidad_revisiones", "Cantidad de revisiones">>,
    comentario |-> <<"comentario_adicional_emisor_it", "comentario",
                     "Comentario adicional/ Emisor de I.T">>,
    vigencia |-> <<"vigencia", "Vigencia">>,
    estado |-> <<"estado", "Estado">>,
    expediente |-> <<"expediente", "Expediente">>,
    fecha_it |-> <<"fecha_it", "Fecha de I.T">>,
    fecha_oficio |-> <<"fecha_oficio", "Fecha Oficio", "Fecha del Oficio">>,
    numero_it |-> <<"numero_it", "Número de I.T">>,
    numero_oficio |-> <<"numero_oficio", "Número Oficio", "Número del Oficio">> ]

\* app.py 167-204: what each field of the form is read with
TipoDe ==
  [ tipo_pei |-> "opcion", etapa_revision |-> "opcion", vigencia |-> "opcion",
    estado |-> "opcion",
    fecha_recepcion |-> "fecha", fecha_derivacion |-> "fecha", fecha_it |-> "fecha",
    fecha_oficio |-> "fecha",
    cantidad_revisiones |-> "entero",
    articulacion |-> "texto", periodo |-> "texto", comentario |-> "texto",
    expediente |-> "texto", numero_it |-> "texto", numero_oficio |-> "texto" ]

\* the options of a select box field
OpcionesDe(f) ==
  CASE f = "tipo_pei" -> tipo_pei_opts
    [] f = "etapa_revision" -> etapas_opts
    [] f = "vigencia" -> vigencia_opts
    [] f = "estado" -> estado_opts

Perfiles == {"valido", "nulo", "malformado"}

\* the cell of field f under its i-th name: a good value (another one under
\* each name), a NULL, or a value the field cannot take
Celda(f, i, perfil) ==
  CASE TipoDe[f] = "opcion" ->
         (CASE perfil = "valido" -> OpcionesDe(f)[((i - 1) % Len(OpcionesDe(f))) + 1]
            [] perfil = "nulo" -> Nulo
            [] perfil = "malformado" -> <<"x">>)
    [] TipoDe[f] = "fecha" ->
         (CASE perfil = "valido" -> i
            [] perfil = "nulo" -> NoFecha
            [] perfil = "malformado" -> FechaInvalida)
    [] TipoDe[f] = "entero" ->
         (CASE perfil = "valido" -> i
            [] perfil = "nulo" -> NaN
            [] perfil = "malformado" -> NoEntero)
    [] TipoDe[f] = "texto" ->
         (CASE perfil = "valido" -> <<" ", Mayusculas[i], " ">>
            [] perfil = "nulo" -> Nulo
            [] perfil = "malformado" -> <<" ">>)

\* the column names of the rows in which every field is present under its
\* names of the positions P
ClavesDe(P) ==
  UNION { {NombresDe[f][i] : i \in P \cap (1..Len(NombresDe[f]))} : f \in DOMAIN NombresDe }

CampoDe(k) == CHOOSE f \in DOMAIN NombresDe : \E i \in 1..Len(NombresDe[f]) : NombresDe[f][i] = k

PosicionDe(k) == CHOOSE i \in 1..Len(NombresDe[CampoDe(k)]) : NombresDe[CampoDe(k)][i] = k

\* the rows given to the mapper: any subset of the name positions present,
\* any profile of the cells under each position
FilasFuente ==
  { [k \in ClavesDe(P) |-> Celda(CampoDe(k), PosicionDe(k), perfil[PosicionDe(k)])] :
      P \in SUBSET (1..3), perfil \in [1..3 -> Perfiles] }

InitFunciones ==
  /\ tabla = <<>>
  /\ session_state = [s \in Sesiones |-> <<>>]
  /\ seleccion = [s \in Sesiones |-> Nulo]
  /\ pendiente = [s \in Sesiones |-> SinLlamada]
  /\ paso = [s \in Sesiones |-> "inicio"]
  /\ invocacion \in
       {[fn |-> "normalizar_codigo", arg |-> x, rets |-> <<>>] : x \in CodigosCrudos}
         \cup {[fn |-> "norm_choice", arg |-> a, rets |-> <<>>] : a \in ArgumentosNormChoice}
         \cup {[fn |-> "set_form_state_from_row", arg |-> row, rets |-> <<>>] :
                 row \in FilasFuente}

\* app.py 388-394 (and 20-26): normalizar_codigo called on the argument, then
\* on its own result
Llamar_normalizar_codigo ==
  /\ invocacion.fn = "normalizar_codigo"
  /\ Len(invocacion.rets) < 2
  /\ invocacion' =
       [invocacion EXCEPT
          !.rets = Append(@, normalizar_codigo(IF @ = <<>> THEN invocacion.arg ELSE @[Len(@)]))]
  /\ UNCHANGED <<tabla, session_state, seleccion, pendiente, paso>>

\* app.py 113-117: norm_choice called on the argument
Llamar_norm_choice ==
  /\ invocacion.fn = "norm_choice"
  /\ invocacion.rets = <<>>
  /\ invocacion' =
       [invocacion EXCEPT
          !.rets = <<norm_choice(invocacion.arg.val, MapaDe(invocacion.arg.mapping),
                                 invocacion.arg.default)>>]
  /\ UNCHANGED <<tabla, session_state, seleccion, pendiente, paso>>

\* app.py 92-206: set_form_state_from_row called on the row; the result is
\* the form it stores in the session
Llamar_set_form_state_from_row ==
  /\ invocacion.fn = "set_form_state_from_row"
  /\ invocacion.rets = <<>>
  /\ invocacion' = [invocacion EXCEPT !.rets = <<set_form_state_from_row(invocacion.arg)>>]
  /\ UNCHANGED <<tabla, session_state, seleccion, pendiente, paso>>

NextFunciones ==
  \/ Llamar_normalizar_codigo
  \/ Llamar_norm_choice
  \/ Llamar_set_form_state_from_row

SpecFunciones == InitFunciones /\ [][NextFunciones]_vars

(***************************************************************************)
(* Properties.                                                             *)
(***************************************************************************)
CamposBloqueados == {"fecha_recepcion", "periodo_pei", "vigencia", "tipo_pei", "articulacion"}

ModoDe(ss) == Get(ss, "modo", "ninguno")

\* C1: the changeset of every update that a submit in editing mode builds
\* holds none of the keys fecha_recepcion, periodo_pei, vigencia, tipo_pei,
\* articulacion.
C1_CambiosSinBloqueados ==
  \A s \in Sesiones :
    pendiente[s].op = "update" => DOMAIN pendiente[s].datos \cap CamposBloqueados = {}

\* an update is on its way to the store, built while the form was in editing mode
C1_Testigo ==
  \E s \in Sesiones :
    /\ pendiente[s].op = "update"
    /\ EnActualizacion(session_state[s])
    /\ pendiente[s].datos.estado = Emitido

\* C2: in every step, by whichever session, every stored row stays in the
\* table with its identifier, and its reception date, period, validity, plan
\* type and articulation are the ones it had (hence those of its insert).
C2_BloqueadosInmutables ==
  [][ \A i \in 1..Len(tabla) :
        /\ i <= Len(tabla')
        /\ tabla'[i].id = tabla[i].id
        /\ \A k \in CamposBloqueados : tabla'[i][k] = tabla[i][k] ]_vars

\* an update has rewritten a row: it was inserted "En proceso" with validity
\* "Sí", and is now "Emitido"
C2_Testigo ==
  \E s \in Sesiones :
    /\ paso[s] = "actualizado"
    /\ \E i \in 1..Len(tabla) : tabla[i].estado = Emitido /\ tabla[i].vigencia = Si

\* "Emitido" comes with a file reference, a report number and a report date
EmisionCompleta(d) ==
  d.estado = Emitido =>
    /\ d.expediente # Nulo /\ Strip(d.expediente) # Vacio
    /\ d.numero_it # Nulo /\ Strip(d.numero_it) # Vacio
    /\ d.fecha_it # NoFecha

\* C3: no store call, insert or update, is built from a form that says
\* "Emitido" with a blank expediente, a blank numero_it or no fecha_it, and no
\* stored row is in that state.
C3_EmitidoCompleto ==
  /\ \A s \in Sesiones : pendiente[s].op # "ninguna" => EmisionCompleta(pendiente[s].datos)
  /\ \A i \in 1..Len(tabla) : EmisionCompleta(tabla[i])

\* a submit in editing mode was refused by the validation: no call was built
C3_Testigo ==
  \E s \in Sesiones :
    /\ paso[s] = "validacion"
    /\ EnActualizacion(session_state[s])
    /\ pendiente[s] = SinLlamada

\* C4: a step in which the store call of a session ends without success shows
\* the failure and leaves the session dictionary (form, modo, edit_mode,
\* edit_id) and the table as they were.
C4_FalloSinCambio ==
  [][ \A s \in Sesiones :
        (pendiente[s] # SinLlamada /\ pendiente'[s] = SinLlamada
           /\ paso'[s] \notin {"guardado", "actualizado"})
        => /\ paso'[s] \in {"duplicado", "error"}
           /\ session_state'[s] = session_state[s]
           /\ tabla' = tabla ]_vars

\* an insert was refused as a duplicate and the session is still in the form
C4_Testigo ==
  \E s \in Sesiones :
    /\ paso[s] = "duplicado"
    /\ ModoDe(session_state[s]) = "nuevo"
    /\ FORM_STATE_KEY \in DOMAIN session_state[s]

\* the unit code or the reception date of a record is absent or empty
SinObligatorios(record) ==
  \/ "id_ue" \notin DOMAIN record
  \/ record["id_ue"] = Nulo
  \/ record["id_ue"] = Vacio
  \/ "fecha_recepcion" \notin DOMAIN record
  \/ record["fecha_recepcion"] = NoFecha

\* the table after the step is the table before it plus one row, that row
\* holding the values of record (the unit code stripped)
UnaFilaMas(record) ==
  /\ Len(tabla') = Len(tabla) + 1
  /\ SubSeq(tabla', 1, Len(tabla)) = tabla
  /\ \A k \in DOMAIN record \ {"id_ue"} : tabla'[Len(tabla')][k] = record[k]
  /\ tabla'[Len(tabla')].id_ue = _clean_str(record["id_ue"])
  /\ \A i \in 1..Len(tabla) : tabla[i].id # tabla'[Len(tabla')].id

\* the table holds a row with the natural key of record (a blank unit code is
\* stored as NULL, which collides with nothing)
ClaveYaGuardada(record) ==
  \E i \in 1..Len(tabla) :
    /\ Strip(record["id_ue"]) # Vacio
    /\ tabla[i].id_ue = Strip(record["id_ue"])
    /\ tabla[i].fecha_recepcion = record["fecha_recepcion"]
    /\ tabla[i].tipo_pei = record["tipo_pei"]

\* C5 as stated: insert ends in a validation error with the table unchanged
\* when the unit code or the reception date is absent or empty, and persists
\* the record as one new row whenever both are present.
C5_ComoEnunciado ==
  [][ \A record \in RegistrosGateway :
        LlamarInsert(record) =>
          IF SinObligatorios(record)
          THEN paso'[1] = "ValueError" /\ tabla' = tabla
          ELSE paso'[1] = "ok" /\ UnaFilaMas(record) ]_vars

\* C5, amended: insert ends in a validation error with the table unchanged
\* when the unit code or the reception date is absent or empty; when both are
\* present the record is persisted as one new row unless the table already
\* holds its natural key, and then the call ends in a conflict error with the
\* table unchanged.
C5_InsertValida ==
  [][ \A record \in RegistrosGateway :
        LlamarInsert(record) =>
          IF SinObligatorios(record)
          THEN paso'[1] = "ValueError" /\ tabla' = tabla
          ELSE IF ClaveYaGuardada(record)
               THEN paso'[1] = "IntegrityError" /\ tabla' = tabla
               ELSE paso'[1] = "ok" /\ UnaFilaMas(record) ]_vars

\* a call without its required fields was refused while the table held a row
C5_Testigo == paso[1] = "ValueError" /\ Len(tabla) = 1

\* C6: after a successful insert through the form, the history query for the
\* selected unit returns the inserted row, and only that row when the table
\* held no row of the unit before.
C6_InsertadoEnHistorial ==
  \A s \in Sesiones :
    paso[s] = "guardado" =>
      LET h == df_historial(tabla, seleccion[s])
          antes == {i \in 1..(Len(tabla) - 1) :
                      tabla[i].id_ue \in {seleccion[s], normalizar_codigo(seleccion[s])}}
      IN /\ \E r \in h : r.id = tabla[Len(tabla)].id
         /\ antes = {} => Cardinality(h) = 1

\* the natural key of the row that a pending insert would create
ClavePendiente(s) ==
  <<Strip(pendiente[s].datos.id_ue), pendiente[s].datos.fecha_recepcion,
    pendiente[s].datos.tipo_pei>>

ClaveDeFila(r) == <<r.id_ue, r.fecha_recepcion, r.tipo_pei>>

ClaveEnTabla(t, clave) == \E i \in 1..Len(t) : ClaveDeFila(t[i]) = clave

\* C7: the table never holds two rows with the same natural key; an insert
\* that reaches the store while its key is not stored succeeds and adds the
\* row with that key, so that the insert of the other session with the same
\* key then finds it stored; an insert that reaches the store while its key
\* is stored is shown as a duplicate, changes neither the table nor the
\* session, and is not tried again.
C7_UnaGanaOtraConflicto ==
  /\ [](\A i, j \in 1..Len(tabla) :
          i # j => ClaveDeFila(tabla[i]) # ClaveDeFila(tabla[j]))
  /\ [][ \A s \in Sesiones :
           (pendiente[s].op = "insert" /\ Ejecutar(s)) =>
             IF ClaveEnTabla(tabla, ClavePendiente(s))
             THEN /\ paso'[s] = "duplicado"
                  /\ tabla' = tabla
                  /\ session_state'[s] = session_state[s]
                  /\ pendiente'[s] = SinLlamada
             ELSE /\ paso'[s] = "guardado"
                  /\ Len(tabla') = Len(tabla) + 1
                  /\ ClaveDeFila(tabla'[Len(tabla')]) = ClavePendiente(s)
                  /\ \A t \in Sesiones \ {s} :
                       (pendiente[t].op = "insert" /\ ClavePendiente(t) = ClavePendiente(s))
                         => /\ pendiente'[t] = pendiente[t]
                            /\ ClaveEnTabla(tabla', ClavePendiente(t)) ]_vars

\* two sessions have each submitted an insert with the same natural key, which
\* is not stored yet, and neither has reached the store
C7_Testigo ==
  /\ pendiente[1].op = "insert"
  /\ pendiente[2].op = "insert"
  /\ ClavePendiente(1) = ClavePendiente(2)
  /\ ~ClaveEnTabla(tabla, ClavePendiente(1))

\* C8: after "Nuevo registro" the form holds the defaults, edit mode is off
\* and no editing identifier is kept, so that a submit would insert.
C8_NuevoDescarta ==
  \A s \in Sesiones :
    paso[s] = "nuevo" =>
      /\ session_state[s][FORM_STATE_KEY] = FORM_DEFAULTS
      /\ ModoDe(session_state[s]) = "nuevo"
      /\ ~edit_mode(session_state[s])
      /\ edit_id(session_state[s]) = Ninguno

\* the rows of the unit selected in session s, as the history query compares
\* the unit code
FilasDeLaSeleccion(s) ==
  {tabla[i] : i \in {j \in 1..Len(tabla) : tabla[j].id_ue = normalizar_codigo(seleccion[s])}}

\* no row of R is more recent than r: none has a later reception date (an
\* absent date is the oldest), nor the same date and a later creation
MasReciente(r, R) ==
  \A q \in R \ {r} :
    \/ q.fecha_recepcion = NoFecha /\ r.fecha_recepcion # NoFecha
    \/ q.fecha_recepcion < r.fecha_recepcion
    \/ q.fecha_recepcion = r.fecha_recepcion /\ q.created_at < r.created_at

\* the form holds the values of row r (texts without surrounding blanks)
FormularioDe(form, r) ==
  /\ form.tipo_pei = r.tipo_pei
  /\ form.etapa_revision = r.etapas_revision
  /\ form.fecha_recepcion = r.fecha_recepcion
  /\ form.articulacion = r.articulacion
  /\ form.fecha_derivacion = r.fecha_derivacion
  /\ form.periodo = r.periodo_pei
  /\ form.cantidad_revisiones = r.cantidad_revisiones
  /\ form.comentario = r.comentario_adicional_emisor_it
  /\ form.vigencia = r.vigencia
  /\ form.estado = r.estado
  /\ form.expediente = Strip(r.expediente)
  /\ form.fecha_it = r.fecha_it
  /\ form.numero_it = Strip(r.numero_it)
  /\ form.fecha_oficio = r.fecha_oficio
  /\ form.numero_oficio = r.numero_oficio

\* C9: after "load latest" the form holds the most recent row of the selected
\* unit (latest reception date, then latest creation), the editing identifier
\* is that row's identifier, and the session is in editing mode.
C9_CargaElMasReciente ==
  \A s \in Sesiones :
    paso[s] = "cargado" =>
      \E r \in FilasDeLaSeleccion(s) :
        /\ MasReciente(r, FilasDeLaSeleccion(s))
        /\ r.id = fetch_last_by_ue(tabla, normalizar_codigo(seleccion[s])).id
        /\ session_state[s]["edit_id"] = r.id
        /\ session_state[s]["edit_mode"] = TRUE
        /\ ModoDe(session_state[s]) = "nuevo"
        /\ FormularioDe(session_state[s][FORM_STATE_KEY], r)

\* a record was loaded for a unit with two rows of the same reception date
C9_Testigo ==
  \E s \in Sesiones :
    /\ paso[s] = "cargado"
    /\ \E r, q \in FilasDeLaSeleccion(s) :
         r.id # q.id /\ r.fecha_recepcion = q.fecha_recepcion

\* C10: after a submit whose store call succeeded, insert or update, the
\* session is in the history view with edit mode off and no editing identifier.
C10_VuelveAHistorial ==
  \A s \in Sesiones :
    paso[s] \in {"guardado", "actualizado"} =>
      /\ ModoDe(session_state[s]) = "historial"
      /\ edit_mode(session_state[s]) = FALSE
      /\ edit_id(session_state[s]) = Ninguno

\* an update of a record that had been loaded into the form succeeded
C10_Testigo ==
  \E s \in Sesiones :
    /\ paso[s] = "actualizado"
    /\ session_state[s][FORM_STATE_KEY].fecha_recepcion # NoFecha

\* the period of a record is empty or has the form dddd-dddd
PeriodoBienFormado(p) == p = Vacio \/ patron_periodo(p)

\* C11: no submit builds an insert whose period is non-empty and does not
\* match ^\d{4}-\d{4}$, and the period of every stored row is empty or matches
\* the pattern.
C11_PeriodoValidado ==
  /\ \A s \in Sesiones :
       pendiente[s].op = "insert" => PeriodoBienFormado(pendiente[s].datos.periodo_pei)
  /\ \A i \in 1..Len(tabla) : PeriodoBienFormado(tabla[i].periodo_pei)

\* C12: normalizar_codigo applied to its own result gives that result again;
\* "23.0", "23" and " 23 " all give "23"; a missing value gives the empty text.
C12_NormalizarIdempotente ==
  invocacion.fn = "normalizar_codigo" =>
    /\ Len(invocacion.rets) = 2 => invocacion.rets[2] = invocacion.rets[1]
    /\ (Len(invocacion.rets) >= 1 /\ invocacion.arg \in {Codigo_23_0, Codigo23, Codigo_b23b})
         => invocacion.rets[1] = Codigo23
    /\ (Len(invocacion.rets) >= 1 /\ invocacion.arg = Nulo) => invocacion.rets[1] = Vacio

\* a code whose normal form differs from it (" 2.", "-.3", "07") was
\* normalized twice
C12_Testigo ==
  /\ invocacion.fn = "normalizar_codigo"
  /\ Len(invocacion.rets) = 2
  /\ invocacion.arg # Nulo
  /\ FloatParses(invocacion.arg)
  /\ invocacion.rets[1] # invocacion.arg

\* the text in lower case, every run of blanks made one blank, every
\* underscore made a blank, no blank at either end; a missing value is the
\* empty text
FormaNormal(v) ==
  IF v = Nulo THEN Vacio ELSE Strip(ReplaceUnderscore(CollapseWs(Lower(v))))

\* C13: norm_choice returns the value the mapping gives for the normal form
\* of its input (lower case, blanks collapsed, underscores made blanks,
\* trimmed), and the default it was given, as given, when that form is no key
\* of the mapping; "SI" with vigencia_map and the default "No" gives "Sí"; an
\* input that spells a choice gives the same value when written without its
\* accent.
C13_NormChoice ==
  (invocacion.fn = "norm_choice" /\ invocacion.rets # <<>>) =>
    LET a == invocacion.arg
        M == MapaDe(a.mapping)
        ret == invocacion.rets[1]
    IN /\ ret = IF FormaNormal(a.val) \in DOMAIN M THEN M[FormaNormal(a.val)] ELSE a.default
       /\ (a.val = <<"S","I">> /\ a.mapping = "vigencia" /\ a.default = No) => ret = Si
       /\ FormaNormal(a.val) \in DOMAIN M =>
            norm_choice(SinTilde(Lower(a.val)), M, a.default) = ret

\* norm_choice was called with "SI", vigencia_map and the default "No"
C13_Testigo ==
  /\ invocacion.fn = "norm_choice"
  /\ invocacion.arg = [val |-> <<"S","I">>, mapping |-> "vigencia", default |-> No]
  /\ invocacion.rets = <<Si>>

\* the documented default of a field: that of FORM_DEFAULTS for a choice, 0
\* for the count, no date, the empty text
Documentado(f) ==
  CASE TipoDe[f] = "opcion" -> FORM_DEFAULTS[f]
    [] TipoDe[f] = "entero" -> 0
    [] TipoDe[f] = "fecha" -> NoFecha
    [] TipoDe[f] = "texto" -> Vacio

\* the cell v is a value field f can take
BienFormada(f, v) ==
  CASE TipoDe[f] = "opcion" -> v # Nulo /\ FormaNormal(v) \in DOMAIN MapaDe(f)
    [] TipoDe[f] = "entero" -> v \notin {NaN, NoEntero}
    [] TipoDe[f] = "fecha" -> v \notin {NoFecha, FechaInvalida}
    [] TipoDe[f] = "texto" -> v # Nulo

\* the value of the form for a well-formed cell
Leida(f, v) ==
  CASE TipoDe[f] = "opcion" -> MapaDe(f)[FormaNormal(v)]
    [] TipoDe[f] = "texto" -> Strip(v)
    [] OTHER -> v

\* C14: the mapper gives a form with every field, whatever the row; each
\* field comes from the first of its names, current then former, that the
\* row holds; a field that the row holds under none of its names, or whose
\* cell is NULL or malformed, has its documented default.
C14_MapperTotal ==
  (invocacion.fn = "set_form_state_from_row" /\ invocacion.rets # <<>>) =>
    LET row == invocacion.arg
        form == invocacion.rets[1]
    IN /\ DOMAIN form = DOMAIN FORM_DEFAULTS
       /\ \A f \in DOMAIN FORM_DEFAULTS :
            LET presentes == {i \in 1..Len(NombresDe[f]) : NombresDe[f][i] \in DOMAIN row}
                primero == CHOOSE i \in presentes : \A j \in presentes : i <= j
            IN IF presentes = {} THEN form[f] = Documentado(f)
               ELSE IF BienFormada(f, row[NombresDe[f][primero]])
                    THEN form[f] = Leida(f, row[NombresDe[f][primero]])
                    ELSE form[f] = Documentado(f)

\* a row was mapped that holds the fields under their former names only, the
\* first of them malformed and the next well formed
C14_Testigo ==
  /\ invocacion.fn = "set_form_state_from_row"
  /\ invocacion.rets # <<>>
  /\ "cantidad_revisiones" \notin DOMAIN invocacion.arg
  /\ "Fecha Oficio" \in DOMAIN invocacion.arg
  /\ "Fecha del Oficio" \in DOMAIN invocacion.arg
  /\ invocacion.arg["Cantidad de revisiones"] = NoEntero
  /\ invocacion.arg["Fecha del Oficio"] = 3
  /\ invocacion.rets[1].cantidad_revisiones = 0
  /\ invocacion.rets[1].fecha_oficio = NoFecha

\* a unit is selected in session s and no stored row is of that unit, under
\* its code as written or as normalized
SinHistorial(s) ==
  /\ seleccion[s] # Nulo
  /\ \A i \in 1..Len(tabla) :
       tabla[i].id_ue \notin {Strip(seleccion[s]), normalizar_codigo(seleccion[s])}

FormDe(ss) == Get(ss, FORM_STATE_KEY, FORM_DEFAULTS)

\* C15: while the selected unit has no stored row, the latest-record lookup
\* gives nothing and the history query is empty, and no step of the session
\* is the load of a record: no step turns edit mode on or sets an editing
\* identifier, the history view is left only by "Nuevo registro", and the
\* form after the step is the form before it or the defaults.
C15_SinHistorialNoCarga ==
  [][ \A s \in Sesiones :
        SinHistorial(s) =>
          /\ fetch_last_by_ue(tabla, normalizar_codigo(seleccion[s])) = Nulo
          /\ df_historial(tabla, seleccion[s]) = {}
          /\ ~CargarUltimo(s)
          /\ edit_mode(session_state'[s]) => edit_mode(session_state[s])
          /\ edit_id(session_state'[s]) # Ninguno
               => edit_id(session_state'[s]) = edit_id(session_state[s])
          /\ (ModoDe(session_state[s]) = "historial" /\ ModoDe(session_state'[s]) = "nuevo")
               => session_state'[s] = Render(boton_nuevo(session_state[s]), seleccion[s])
          /\ FormDe(session_state'[s]) \in {FormDe(session_state[s]), FORM_DEFAULTS} ]_vars

\* the history view of a unit without rows is shown while the table holds a
\* row of another unit, and the session is not in edit mode
C15_Testigo ==
  \E s \in Sesiones :
    /\ paso[s] = "historial"
    /\ SinHistorial(s)
    /\ Len(tabla) > 0
    /\ ~edit_mode(session_state[s])
    /\ edit_id(session_state[s]) = Ninguno

\* the row with identifier id is of the unit with this code
FilaDeLaUnidad(id, codigo) ==
  \E i \in 1..Len(tabla) :
    /\ tabla[i].id = id
    /\ tabla[i].id_ue \in {Strip(codigo), normalizar_codigo(codigo)}

\* C16: every update that a submit builds has the identifier of a stored row
\* of the unit selected in the session that submits.
C16_UpdateDeLaUnidad ==
  \A s \in Sesiones :
    pendiente[s].op = "update" => FilaDeLaUnidad(pendiente[s].id, seleccion[s])

\* C17: in every session edit_mode is on exactly when edit_id holds an
\* identifier; hence, whatever is entered in the form, the blocked widgets
\* show the values of the form state (are read-only) exactly when the submit
\* builds an update, and take the entries exactly when it builds an insert.
C17_BanderasJuntas ==
  \A s \in Sesiones :
    /\ edit_mode(session_state[s]) <=> edit_id(session_state[s]) # Ninguno
    /\ (seleccion[s] # Nulo /\ ModoDe(session_state[s]) = "nuevo") =>
         \A e \in Entradas \cup EntradasCarrera :
           LET w == Widgets(session_state[s], seleccion[s], e)
               ll == llamada(session_state[s], seleccion[s], w)
           IN /\ edit_mode(session_state[s]) <=> ll.op = "update"
              /\ ll.op = "insert" =>
                   \A k \in {"tipo_pei", "fecha_recepcion", "periodo", "vigencia"} : w[k] = e[k]
              /\ ll.op = "update" =>
                   /\ w.periodo = session_state[s][FORM_STATE_KEY].periodo
                   /\ w.tipo_pei = session_state[s][FORM_STATE_KEY].tipo_pei
                   /\ w.vigencia = session_state[s][FORM_STATE_KEY].vigencia

\* a session that had loaded a record and updated it is again in the form,
\* after "Nuevo registro", with edit mode off
C17_Testigo ==
  \E s \in Sesiones :
    /\ paso[s] = "nuevo"
    /\ \E i \in 1..Len(tabla) : tabla[i].estado = Emitido /\ tabla[i].vigencia = Si
    /\ ~edit_mode(session_state[s])
    /\ edit_id(session_state[s]) = Ninguno

====
